---- MODULE Spec2Model ----
(***************************************************************************)
(* Model of the document pipeline of Synthese-carte-financement:           *)
(*   services/llm_classifier.py  LLMClassifier (classification, fallback,  *)
(*                               extraction, complete pipeline)            *)
(*   main.py                     process_multiple_files (batch, semaphore) *)
(*   database.py                 documents / document_extractions tables   *)
(*                                                                         *)
(* Strings on which the code computes (type names, recognised text) are    *)
(* sequences of one-character strings, so that lower(), split() and the    *)
(* "in" substring test are computed as Python computes them.  Confidences  *)
(* are integers in hundredths (0.3 is 30, 1.0 is 100).                     *)
(***************************************************************************)
EXTENDS Integers, Sequences, FiniteSets, TLC

VARIABLES
    document_types,   \* LLMClassifier.document_types: list of type names
    categories,       \* LLMClassifier.categories: set of <<name, category>> pairs (a dict)
    has_llm,          \* LLMClassifier.llm / .chain is not None (OPENAI_API_KEY set)
    call,             \* one classify_document call: its position, inputs and result
    files,            \* the uploaded files of one process_multiple_files call
    task,             \* per file: position and locals of its process_with_semaphore task
    results,          \* the list asyncio.gather builds, one slot per task
    disk,             \* set of task indexes whose staged copy exists in UPLOAD_DIR
    documents,        \* table documents: sequence of rows
    extractions,      \* table document_extractions: sequence of rows
    effects,          \* per file: the external calls and writes made for it
    response,         \* the batch response, once process_multiple_files returned
    semaphore,        \* asyncio.Semaphore(5): its free slots
    config_delete,    \* config.DELETE_AFTER_PROCESSING
    batch,            \* position of process_multiple_files and its generate_synthesis flag
    syntheses,        \* table syntheses: sequence of rows
    calls,            \* generate_complete_synthesis: the clock and the requests in progress
    pools             \* the process_multiple_files calls in progress: semaphore and units

vars == <<document_types, categories, has_llm, call, files, task, results,
          disk, documents, extractions, effects, response, semaphore,
          config_delete, batch, syntheses, calls, pools>>

clsVars == <<document_types, categories, has_llm>>
batchVars == <<files, task, results, disk, documents, extractions, effects, response,
               semaphore, config_delete, batch, syntheses, calls, pools>>

(***************************************************************************)
(* Python values                                                           *)
(***************************************************************************)
None == "None"

\* str.lower() on the alphabet used by the model's strings.
LowerChar(c) ==
    CASE c = "A" -> "a" [] c = "B" -> "b" [] c = "D" -> "d" [] c = "I" -> "i"
      [] c = "K" -> "k" [] c = "S" -> "s" [] c = "P" -> "p" [] c = "F" -> "f"
      [] OTHER -> c

Lower(s) == [i \in 1..Len(s) |-> LowerChar(s[i])]

\* Python's `sub in s` on strings.
Contains(sub, s) ==
    \E i \in 0..(Len(s) - Len(sub)) : SubSeq(s, i + 1, i + Len(sub)) = sub

\* Python's s[:n].
Truncate(s, n) == SubSeq(s, 1, IF Len(s) < n THEN Len(s) ELSE n)

\* A slip of `not extracted_text.strip()`: `not extracted_text`.
IsEmptyString(s) == s = <<>>
\* str.strip() == "" : only whitespace.
IsBlank(s) == \A i \in 1..Len(s) : s[i] = " "

\* str.split(): the maximal runs of non-whitespace characters, in order.
RECURSIVE SplitFrom(_, _, _)
SplitFrom(s, i, word) ==
    IF i > Len(s)
    THEN IF word = <<>> THEN <<>> ELSE <<word>>
    ELSE IF s[i] = " "
         THEN (IF word = <<>> THEN <<>> ELSE <<word>>) \o SplitFrom(s, i + 1, <<>>)
         ELSE SplitFrom(s, i + 1, Append(word, s[i]))

Split(s) == SplitFrom(s, 1, <<>>)

\* dict.get(key, default) on a dict held as a set of <<key, value>> pairs with
\* unique keys.
DictGet(d, key, default) ==
    IF \E p \in d : p[1] = key
    THEN (CHOOSE p \in d : p[1] = key)[2]
    ELSE default

(***************************************************************************)
(* The strings of the model                                                *)
(***************************************************************************)
S_KBIS  == <<"K", "B", "I", "S">>
S_Bail  == <<"B", "a", "i", "l">>
S_Autre == <<"A", "u", "t", "r", "e">>
S_Avis  == <<"A", "v", "i", "s", " ", "N", "1">>
s_kbis  == <<"k", "b", "i", "s">>
S_Devis == <<"D", "e", "v", "i", "s">>
S_AutreDoc == <<"A", "u", "t", "r", "e", " ", "d", "o", "c">>
s_autre == <<"a", "u", "t", "r", "e">>
S_NonIdentifie ==
    <<"D", "o", "c", "u", "m", "e", "n", "t", " ", "n", "o", "n", " ",
      "i", "d", "e", "n", "t", "i", "f", "i", "e">>

T_Empty == <<>>
T_Blank == <<" ", " ">>
T_Kbis  == <<"u", "n", " ", "k", "b", "i", "s">>
T_BailAvis == <<"a", "v", "i", "s", " ", "b", "a", "i", "l">>
T_Other == <<"x", "y", "z">>

(***************************************************************************)
(* models/schemas.py                                                       *)
(***************************************************************************)
\* DocumentClassification: confidence: float = Field(ge=0.0, le=1.0); the
\* constructor raises a ValidationError outside the range.
DocumentClassificationUnchecked(c) == TRUE
DocumentClassificationValid(c) == 0 <= c.confidence /\ c.confidence <= 100

DocumentClassification(document_type, category, confidence) ==
    [document_type |-> document_type, category |-> category, confidence |-> confidence]

(***************************************************************************)
(* database.py: the document_types table read by get_document_types        *)
(***************************************************************************)
\* Contents of table document_types the model loads: rows <<name, category>>,
\* already in the order of "ORDER BY category, name".  A failed load is the
\* row list "error".
DbFull    == << <<S_KBIS, "Company">>, <<S_Autre, "Object">>,
                <<S_Bail, "Patrimoine immobilier">>, <<S_Avis, "Revenus">> >>
DbNoAutre == << <<S_KBIS, "Company">>, <<S_Bail, "Patrimoine immobilier">> >>
DbEmpty   == << >>

\* LLMClassifier._load_document_types_from_db: the two attributes it sets; the
\* except branch leaves empty lists.
LoadDocumentTypes(db_types, load_ok) ==
    IF load_ok
    THEN [document_types |-> [i \in 1..Len(db_types) |-> db_types[i][1]],
          categories |-> {db_types[i] : i \in 1..Len(db_types)}]
    ELSE [document_types |-> <<>>, categories |-> {}]

\* `name in self.document_types`
InTypes(types, name) == \E i \in 1..Len(types) : types[i] = name

(***************************************************************************)
(* services/llm_classifier.py: classification                              *)
(***************************************************************************)
KeywordMinLen == 3
FallbackKeywordConfidence == 30
FallbackAutreConfidence == 20
FallbackDefaultConfidence == 10
DefaultConfidence == 50
ClassifyMaxChars == 8000

\* Optional[...] values are sequences of length 0 (None) or 1.
Some(x) == <<x>>
Nothing == <<>>

\* The smallest of the indices that satisfy a loop's test, 0 when there is
\* none: the first hit of a `for doc_type in self.document_types` loop that
\* returns.
FirstIndex(hits) ==
    IF hits = {} THEN 0 ELSE CHOOSE i \in hits : \A j \in hits : i <= j

\* lines 297-299: some word of the lower-cased type name, longer than 3
\* characters, occurs in the lower-cased text.
KeywordHit(doc_type, text_lower) ==
    LET keywords == Split(Lower(doc_type))
    IN \E k \in 1..Len(keywords) :
           Len(keywords[k]) > KeywordMinLen /\ Contains(keywords[k], text_lower)

HasAutre(doc_type) == Contains(s_autre, Lower(doc_type))

\* A plausible slip of the default branch: document_types[0] without the
\* emptiness guard raises IndexError on an empty catalog.
FallbackUnguarded(types, cats, text) ==
    LET text_lower == Lower(text)
        KwHit(t) == KeywordHit(t, text_lower)
        k == FirstIndex({i \in 1..Len(types) : KwHit(types[i])})
        a == FirstIndex({i \in 1..Len(types) : HasAutre(types[i])})
    IN IF k > 0
       THEN [raised |-> FALSE,
             classification |-> DocumentClassification(
                 types[k], DictGet(cats, types[k], "Autre"), FallbackKeywordConfidence)]
       ELSE IF a > 0
       THEN [raised |-> FALSE,
             classification |-> DocumentClassification(
                 types[a], DictGet(cats, types[a], "Autre"), FallbackAutreConfidence)]
       ELSE IF Len(types) > 0
       THEN [raised |-> FALSE,
             classification |-> DocumentClassification(
                 types[1], DictGet(cats, types[1], "Autre"), FallbackDefaultConfidence)]
       ELSE [raised |-> TRUE,
             classification |-> DocumentClassification(S_NonIdentifie, "Autre", 0)]

\* LLMClassifier._fallback_classification: first catalog entry (in catalog
\* order) with a keyword in the text at 0.3, else the first entry containing
\* "autre" at 0.2, else the first entry (or "Document non identifié") at 0.1.
\* Each branch builds a DocumentClassification, which validates the confidence.
FallbackClassification(types, cats, text) ==
    LET text_lower == Lower(text)
        KwHit(t) == KeywordHit(t, text_lower)
        k == FirstIndex({i \in 1..Len(types) : KwHit(types[i])})
        a == FirstIndex({i \in 1..Len(types) : HasAutre(types[i])})
        default_type == IF Len(types) > 0 THEN types[1] ELSE S_NonIdentifie
        built == IF k > 0
                 THEN DocumentClassification(
                          types[k], DictGet(cats, types[k], "Autre"), FallbackKeywordConfidence)
                 ELSE IF a > 0
                 THEN DocumentClassification(
                          types[a], DictGet(cats, types[a], "Autre"), FallbackAutreConfidence)
                 ELSE DocumentClassification(
                          default_type, DictGet(cats, default_type, "Autre"),
                          FallbackDefaultConfidence)
    IN [raised |-> ~DocumentClassificationValid(built), classification |-> built]

\* LLMClassifier._find_closest_match (reached only from
\* _validate_and_correct_result).
FindClosestMatch(types, document_type) ==
    LET dl == Lower(document_type)
        Near(t) == Contains(dl, Lower(t)) \/ Contains(Lower(t), dl)
        m == FirstIndex({i \in 1..Len(types) : Near(types[i])})
        a == FirstIndex({i \in 1..Len(types) : HasAutre(types[i])})
    IN IF m > 0 THEN types[m]
       ELSE IF a > 0 THEN types[a]
       ELSE IF Len(types) > 0 THEN types[1] ELSE S_NonIdentifie

\* LLMClassifier._validate_and_correct_result.  No line of the repository
\* calls it: classify_document returns the chain's result without it.
ValidateAndCorrectResult(types, cats, result) ==
    LET dt == IF InTypes(types, result.document_type)
              THEN result.document_type
              ELSE FindClosestMatch(types, result.document_type)
        conf == IF 0 <= result.confidence /\ result.confidence <= 100
                THEN result.confidence ELSE DefaultConfidence
    IN DocumentClassification(dt, DictGet(cats, dt, "Autre"), conf)

\* A reply of the Inference collaborator to a structured-output call
\* (self.llm.with_structured_output(DocumentClassification)): a tool call with
\* arguments, no tool call, or a failure.
OkReply(document_type, category, confidence) ==
    [kind |-> "ok", document_type |-> document_type, category |-> category,
     confidence |-> confidence]
FailReply(kind) ==
    [kind |-> kind, document_type |-> <<>>, category |-> "", confidence |-> 0]

\* chain.ainvoke / chain.invoke: the arguments are parsed into a
\* DocumentClassification, whose validation raises on a confidence outside
\* [0,1]; a reply without tool call gives None.
ChainInvoke(reply) ==
    IF reply.kind = "raise"
    THEN [exc |-> "Exception", message |-> "Connection error", value |-> Nothing]
    ELSE IF reply.kind = "parse_error"
    THEN [exc |-> "OutputParserException", message |-> "Invalid json output", value |-> Nothing]
    ELSE IF reply.kind = "none"
    THEN [exc |-> None, message |-> None, value |-> Nothing]
    ELSE LET c == DocumentClassification(reply.document_type, reply.category, reply.confidence)
         IN IF DocumentClassificationValid(c)
            THEN [exc |-> None, message |-> None, value |-> Some(c)]
            ELSE [exc |-> "Exception", message |-> "ValidationError", value |-> Nothing]

\* LLMClassifier._strict_validation_and_reclassification: Optional result.
StrictValidationAndReclassification(types, llm, reply2) ==
    IF ~llm THEN Nothing
    ELSE LET r == ChainInvoke(reply2)
         IN IF r.exc # None THEN Nothing
            ELSE IF r.value # Nothing /\ InTypes(types, r.value[1].document_type)
            THEN r.value
            ELSE Nothing

\* The value of a classify_document call: either it raised, or the
\* ClassificationResult(...).model_dump() it returned.
ClsRaised ==
    [raised |-> TRUE, success |-> FALSE,
     classification |-> DocumentClassification(<<>>, "", 0), error_message |-> None]
ClsReturn(success, classification, error_message) ==
    [raised |-> FALSE, success |-> success, classification |-> classification,
     error_message |-> error_message]

\* The three failure returns of classify_document (lines 112-120, 154-162,
\* 164-172): the fallback runs outside any try, so what it raises escapes.
ClassifyFailure(types, cats, text, error_message) ==
    LET fb == FallbackClassification(types, cats, text)
    IN IF fb.raised \/ ~DocumentClassificationValid(fb.classification)
       THEN ClsRaised
       ELSE ClsReturn(FALSE, fb.classification, error_message)

\* LLMClassifier.classify_document, for the replies of its two Inference
\* calls (reply2 is read only when the strict reclassification runs).
ClassifyDocument(types, cats, llm, text, reply1, reply2) ==
    IF ~llm
    THEN ClassifyFailure(types, cats, text, "Chaine LangChain non initialisee")
    ELSE LET truncated_text == Truncate(text, ClassifyMaxChars)
             r == ChainInvoke(reply1)
         IN IF r.exc = "OutputParserException"
            THEN ClassifyFailure(types, cats, text, "Erreur parsing: Invalid json output")
            ELSE IF r.exc # None
            THEN ClassifyFailure(types, cats, text, r.message)
            ELSE IF r.value = Nothing
            THEN \* result is None: result.document_type raises AttributeError
                 ClassifyFailure(types, cats, text, "AttributeError")
            ELSE LET result == r.value[1]
                     improved ==
                         IF ~InTypes(types, result.document_type)
                               \/ HasAutre(result.document_type)
                         THEN StrictValidationAndReclassification(types, llm, reply2)
                         ELSE Nothing
                     final == IF improved # Nothing THEN improved[1] ELSE result
                 IN ClsReturn(TRUE, final, None)

(***************************************************************************)
(* Inputs of the classifier checks                                         *)
(***************************************************************************)
Texts == {T_Kbis, T_BailAvis, T_Other, T_Empty}
ReplyNames == {S_KBIS, S_Bail, S_Autre, s_kbis, S_Devis, S_AutreDoc}
ReplyCategories == {"Company", "Object", "Revenus"}
ReplyConfidences == {-10, 0, 90, 100, 150}

ClassifyReplies ==
    {OkReply(n, c, k) : n \in ReplyNames, c \in ReplyCategories, k \in ReplyConfidences}
        \cup {FailReply("raise"), FailReply("parse_error"), FailReply("none")}

\* Replies to the second, stricter call.
StrictReplies ==
    {OkReply(S_KBIS, "Revenus", 80), OkReply(S_Bail, "Patrimoine immobilier", 120),
     OkReply(S_Devis, "Object", 70), FailReply("raise"), FailReply("none")}

Catalogs ==
    {LoadDocumentTypes(DbFull, TRUE), LoadDocumentTypes(DbNoAutre, TRUE),
     LoadDocumentTypes(DbEmpty, TRUE), LoadDocumentTypes(DbFull, FALSE)}

(***************************************************************************)
(* One classify_document call at a time on a constructed LLMClassifier     *)
(***************************************************************************)
\* No generate_complete_synthesis request is in progress.
NoSynth == [clock |-> 0, requests |-> <<>>]

IdleCall ==
    [pc |-> "idle", text |-> <<>>, prompt_types |-> <<>>,
     reply1 |-> Nothing, reply2 |-> Nothing, out |-> Nothing]

NoBatch ==
    /\ files = <<>>
    /\ task = <<>>
    /\ results = <<>>
    /\ disk = {}
    /\ documents = <<>>
    /\ extractions = <<>>
    /\ effects = <<>>
    /\ response = Nothing
    /\ semaphore = 0
    /\ config_delete = TRUE
    /\ batch = [pc |-> "none", generate_synthesis |-> FALSE]
    /\ syntheses = <<>>
    /\ calls = NoSynth
    /\ pools = <<>>

\* LLMClassifier.__init__: the chain exists iff the API key is set; the catalog
\* is loaded from the database (empty when the load fails).
InitClassify ==
    /\ \E cat \in Catalogs :
          /\ document_types = cat.document_types
          /\ categories = cat.categories
    /\ has_llm \in BOOLEAN
    /\ call = IdleCall
    /\ NoBatch

\* classify_document up to its first suspension: without chain it returns the
\* fallback at once; with a chain it builds the prompt and awaits chain.ainvoke.
ClassifyBegin(text) ==
    /\ call.pc = "idle"
    /\ call' = IF ~has_llm
               THEN [IdleCall EXCEPT
                        !.pc = "returned", !.text = text,
                        !.out = Some(ClassifyDocument(document_types, categories, has_llm,
                                                      text, FailReply("raise"),
                                                      FailReply("raise")))]
               ELSE [IdleCall EXCEPT
                        !.pc = "awaiting", !.text = text,
                        !.prompt_types = document_types]
    /\ UNCHANGED <<clsVars, batchVars>>

\* chain.ainvoke answers; the rest of classify_document runs to its return.
ClassifyResume(reply1, reply2) ==
    /\ call.pc = "awaiting"
    /\ call' = [call EXCEPT
                   !.pc = "returned", !.reply1 = Some(reply1), !.reply2 = Some(reply2),
                   !.out = Some(ClassifyDocument(document_types, categories, has_llm,
                                                 call.text, reply1, reply2))]
    /\ UNCHANGED <<clsVars, batchVars>>

\* The caller takes the result; the classifier is ready for the next call.
ClassifyEnd ==
    /\ call.pc = "returned"
    /\ call' = IdleCall
    /\ UNCHANGED <<clsVars, batchVars>>

NextClassify ==
    \/ \E text \in Texts : ClassifyBegin(text)
    \/ \E reply1 \in ClassifyReplies, reply2 \in StrictReplies : ClassifyResume(reply1, reply2)
    \/ ClassifyEnd

SpecClassify == InitClassify /\ [][NextClassify]_vars

(***************************************************************************)
(* Claims on classify_document                                             *)
(***************************************************************************)
CallReturned == call.pc = "returned" /\ call.out # Nothing
CallOut == call.out[1]
InferenceAnswered == call.reply1 # Nothing /\ call.reply1[1].kind = "ok"
                        /\ DocumentClassificationValid(call.reply1[1])

\* C1: whenever Inference returns a type name present in the catalog, the
\* category of the returned ClassificationResult is the catalog's category of
\* the result's type, whatever category Inference returned.
C1_CategoryFromCatalog ==
    (CallReturned /\ InferenceAnswered
        /\ InTypes(document_types, call.reply1[1].document_type))
    => (/\ ~CallOut.raised
        /\ InTypes(document_types, CallOut.classification.document_type)
        /\ CallOut.classification.category =
              DictGet(categories, CallOut.classification.document_type, "Autre"))

\* C2: whenever Inference returns a type name absent from the non-empty
\* catalog, the document type of the returned result is a catalog member.
C2_RepairTotal ==
    (CallReturned /\ InferenceAnswered /\ Len(document_types) > 0
        /\ ~InTypes(document_types, call.reply1[1].document_type))
    => (~CallOut.raised /\ InTypes(document_types, CallOut.classification.document_type))

\* Inference is unavailable, throws, or its output fails to parse or validate.
InferenceFailed ==
    \/ ~has_llm
    \/ call.reply1 # Nothing
         /\ (call.reply1[1].kind # "ok" \/ ~DocumentClassificationValid(call.reply1[1]))

\* C9: classify_document never raises, and on every failure of Inference it
\* returns a well-formed result with success = FALSE and an error message.
C9_ClassifyNeverRaises ==
    CallReturned =>
        /\ ~CallOut.raised
        /\ DocumentClassificationValid(CallOut.classification)
        /\ CallOut.classification.document_type # <<>>
        /\ InferenceFailed =>
              (~CallOut.success /\ CallOut.error_message # None)

C9_Witness ==
    /\ CallReturned /\ has_llm
    /\ call.reply1 = Some(FailReply("raise"))
    /\ document_types = <<>>
    /\ ~CallOut.success
    /\ CallOut.error_message = "Connection error"

(***************************************************************************)
(* config.py                                                               *)
(***************************************************************************)
MaxFileSizeMB == 50
MAX_FILE_SIZE == MaxFileSizeMB * 1024 * 1024
SUPPORTED_EXTENSIONS ==
    { <<".", "p", "d", "f">>, <<".", "p", "n", "g">>, <<".", "j", "p", "g">>,
      <<".", "j", "p", "e", "g">>, <<".", "t", "i", "f", "f">>, <<".", "b", "m", "p">> }

\* str.endswith(suffix) and str.endswith(tuple)
EndsWith(s, suffix) ==
    Len(suffix) <= Len(s) /\ SubSeq(s, Len(s) - Len(suffix) + 1, Len(s)) = suffix
EndsWithAny(s, suffixes) == \E x \in suffixes : EndsWith(s, x)

(***************************************************************************)
(* Uploaded files.  size 0 stands for both falsy values of UploadFile.size *)
(* (None and 0); content is what the Recognizer finds in the file.         *)
(***************************************************************************)
UploadFile(filename, size, content) ==
    [filename |-> filename, size |-> size, content |-> content]

F_GoodPdf  == UploadFile(<<"a", ".", "p", "d", "f">>, 1024, "kbis")
F_UpperPdf == UploadFile(<<"b", ".", "P", "D", "F">>, 0, "other")
F_Txt      == UploadFile(<<"c", ".", "t", "x", "t">>, 1024, "kbis")
F_TooBig   == UploadFile(<<"d", ".", "p", "d", "f">>, MAX_FILE_SIZE + 1, "kbis")
F_BlankJpg == UploadFile(<<"e", ".", "j", "p", "g">>, MAX_FILE_SIZE, "blank")
F_Corrupt  == UploadFile(<<"f", ".", "p", "n", "g">>, 2048, "corrupt")
F_OcrFailed == UploadFile(<<"g", ".", "b", "m", "p">>, 1024, "ocr_failed")

\* lines 130 and 138 of process_single_file.
ExtensionUnchecked(file) == TRUE
ExtensionSupported(file) == EndsWithAny(Lower(file.filename), SUPPORTED_EXTENSIONS)
SizeTooLarge(file) == file.size # 0 /\ file.size > MAX_FILE_SIZE

(***************************************************************************)
(* services/document_processor.py: the Recognizer                          *)
(***************************************************************************)
\* DocumentProcessor.extract_text: the text of the file; an unreadable file
\* raises "Erreur lors de l'extraction du texte"; a failed OCR call is swallowed
\* into an empty or blank text (_extract_with_mistral_ocr, lines 188-191).
ExtractText(file) ==
    CASE file.content = "kbis"    -> [raised |-> FALSE, text |-> T_Kbis]
      [] file.content = "other"   -> [raised |-> FALSE, text |-> T_Other]
      [] file.content = "blank"   -> [raised |-> FALSE, text |-> T_Blank]
      [] file.content = "corrupt" -> [raised |-> TRUE, text |-> T_Empty]
      [] OTHER                    -> [raised |-> FALSE, text |-> T_Empty]

(***************************************************************************)
(* services/llm_classifier.py: extraction and the complete pipeline        *)
(***************************************************************************)
ExtractionConfidence == 90

ExtractionResult(success, error, extracted_data, confidence) ==
    [success |-> success, error |-> error, extracted_data |-> extracted_data,
     confidence |-> confidence]

\* extract_document_data up to the creation of the chain: without llm it
\* returns a failure at once (lines 390-398).
ExtractWithoutLlm == ExtractionResult(FALSE, "LLM non initialise", Nothing, 0)

\* The answers of extraction_chain.ainvoke: a structured object, an exception,
\* or no tool call (None, whose .model_dump() raises AttributeError).
ExtractReplies == {"ok", "raise", "none"}

\* The error text of the except branch (line 459): f"Extraction échouée: {e}".
ExtractionError(ereply) ==
    IF ereply = "none" THEN "Extraction echouee: AttributeError"
    ELSE "Extraction echouee: Connection error"

\* A keyword fallback for extraction, as classification has one: synthetic
\* data at a low confidence.
ExtractWithFallback(cats, document_type, ereply) ==
    ExtractionResult(
        ereply = "ok", IF ereply = "ok" THEN None ELSE ExtractionError(ereply),
        Some([document_type |-> document_type,
              category |-> DictGet(cats, document_type, "Autre")]),
        IF ereply = "ok" THEN ExtractionConfidence ELSE FallbackKeywordConfidence)

\* extract_document_data after extraction_chain.ainvoke answered (ereply "ok")
\* or failed (lines 409-463): no fallback, the error is returned.
ExtractDocumentData(cats, document_type, ereply) ==
    IF ereply = "ok"
    THEN ExtractionResult(
             TRUE, None,
             Some([document_type |-> document_type,
                   category |-> DictGet(cats, document_type, "Autre")]),
             ExtractionConfidence)
    ELSE ExtractionResult(FALSE, ExtractionError(ereply), Nothing, 0)

\* process_document_complete: its two returns (lines 482-490, 502-516).
PrClassificationFailed(cls) ==
    [success |-> FALSE, error |-> "Echec de la classification",
     classification |-> cls, extraction |-> Nothing]
PrComplete(cls, ext) ==
    [success |-> ext.success, error |-> None,
     classification |-> cls, extraction |-> Some(ext)]

(***************************************************************************)
(* One extract_document_data call at a time on a constructed LLMClassifier *)
(***************************************************************************)
ExtractCall(pc, text, document_type, ereply, out) ==
    [pc |-> pc, text |-> text, document_type |-> document_type,
     ereply |-> ereply, out |-> out]

\* extract_document_data up to its first suspension: without llm it returns
\* the failure at once (lines 390-398); else it awaits extraction_chain.ainvoke.
ExtractBegin(text, document_type) ==
    /\ call.pc = "idle"
    /\ call' = IF ~has_llm
               THEN ExtractCall("extracted", text, document_type, Nothing,
                                Some(ExtractWithoutLlm))
               ELSE ExtractCall("extracting", text, document_type, Nothing, Nothing)
    /\ UNCHANGED <<clsVars, batchVars>>

\* extraction_chain.ainvoke answers; the call runs to its return.
ExtractResume(ereply) ==
    /\ call.pc = "extracting"
    /\ call' = [call EXCEPT
                   !.pc = "extracted", !.ereply = Some(ereply),
                   !.out = Some(ExtractDocumentData(categories, call.document_type, ereply))]
    /\ UNCHANGED <<clsVars, batchVars>>

\* The caller takes the result.
ExtractEnd ==
    /\ call.pc = "extracted"
    /\ call' = IdleCall
    /\ UNCHANGED <<clsVars, batchVars>>

NextExtract ==
    \/ \E text \in Texts, document_type \in ReplyNames : ExtractBegin(text, document_type)
    \/ \E ereply \in ExtractReplies : ExtractResume(ereply)
    \/ ExtractEnd

SpecExtract == InitClassify /\ [][NextExtract]_vars

\* Inference is unavailable or failed during the extraction call.
ExtractionInferenceFailed == ~has_llm \/ call.ereply # Some("ok")

\* C11: extraction has no fallback: when Inference is unavailable or fails, the
\* result has success = FALSE, an error text carrying the cause, no extracted
\* data and confidence 0; the confidence 0.9 is reported only on success.
C11_ExtractNoFallback ==
    call.pc = "extracted" =>
        LET r == call.out[1]
        IN /\ ExtractionInferenceFailed =>
                 /\ ~r.success
                 /\ r.extracted_data = Nothing
                 /\ r.confidence = 0
                 /\ r.error = IF ~has_llm THEN "LLM non initialise"
                              ELSE ExtractionError(call.ereply[1])
           /\ r.confidence = ExtractionConfidence => r.success
           /\ r.success => /\ r.confidence = ExtractionConfidence
                           /\ r.extracted_data # Nothing
                           /\ r.error = None

\* The Inference call of an extraction threw and the call returned its failure.
C11_Witness ==
    /\ call.pc = "extracted"
    /\ has_llm
    /\ call.ereply = Some("raise")
    /\ ~call.out[1].success
    /\ call.out[1].error = "Extraction echouee: Connection error"

(***************************************************************************)
(* main.py: process_single_file                                            *)
(***************************************************************************)
\* What a task leaves in asyncio.gather's list: the dict process_single_file
\* returned, or the exception that escaped it.  document_id / extraction_id 0
\* stand for an absent key or None.
FailureOutcome(filename, error) ==
    [kind |-> "dict", success |-> FALSE, filename |-> filename, error |-> error,
     document_id |-> 0, extraction_id |-> 0, processing_result |-> Nothing]
\* A slip of line 200: reporting the pipeline's own success.
SuccessOutcomeOfPipeline(filename, document_id, extraction_id, pr) ==
    [kind |-> "dict", success |-> pr.success, filename |-> filename, error |-> None,
     document_id |-> document_id, extraction_id |-> extraction_id,
     processing_result |-> Some(pr)]
SuccessOutcome(filename, document_id, extraction_id, pr) ==
    [kind |-> "dict", success |-> TRUE, filename |-> filename, error |-> None,
     document_id |-> document_id, extraction_id |-> extraction_id,
     processing_result |-> Some(pr)]
ExceptionOutcome(error) ==
    [kind |-> "exception", success |-> FALSE, filename |-> <<>>, error |-> error,
     document_id |-> 0, extraction_id |-> 0, processing_result |-> Nothing]

NoEffects == [staged |-> FALSE, recognizer |-> FALSE, inference |-> FALSE, store |-> FALSE]

\* The result of running a task from one suspension point to the next: either
\* it is suspended again (pc "classify" / "extract") or it is done.
Suspended(pc, text, cls, eff) ==
    [pc |-> pc, text |-> text, cls |-> cls, outcome |-> FailureOutcome(<<>>, None),
     staged |-> TRUE, new_docs |-> <<>>, new_exts |-> <<>>, eff |-> eff]
Done(outcome, staged, new_docs, new_exts, eff) ==
    [pc |-> "done", text |-> <<>>, cls |-> Nothing, outcome |-> outcome,
     staged |-> staged, new_docs |-> new_docs, new_exts |-> new_exts, eff |-> eff]

\* The except branch of process_single_file (lines 209-217): remove the staged
\* copy if it exists, then return the failure dict.  A failing os.remove
\* raises out of the handler, i.e. out of the task.
ExceptHandler(filename, exists, rm_ok, error, eff) ==
    IF exists /\ ~rm_ok
    THEN Done(ExceptionOutcome("OSError remove"), TRUE, <<>>, <<>>, eff)
    ELSE Done(FailureOutcome(filename, error), FALSE, <<>>, <<>>, eff)

\* A slip of line 181: storing whatever extraction the pipeline returned.
HasAnyExtraction(pr) == pr.extraction # Nothing
\* Line 181: `if extraction_data and extraction_data.get("success")`.
HasStorableExtraction(pr) == pr.extraction # Nothing /\ pr.extraction[1].success

\* Lines 167-207: insert_document, insert_document_extraction when the
\* extraction succeeded (its failure is printed), deletion of the staged copy
\* when configured (its failure is printed), the success dict.
PersistAndReturn(file, text, pr, docs, exts, delete_flag, fault, rm_ok, eff) ==
    LET classification_data == pr.classification.classification
        eff2 == [eff EXCEPT !.store = TRUE]
    IN IF fault = "store"
       THEN ExceptHandler(file.filename, TRUE, rm_ok, "sqlite3.Error", eff2)
       ELSE LET document_id == Len(docs) + 1
                row == [id |-> document_id, filename |-> file.filename,
                        extracted_text |-> text,
                        detected_type |-> classification_data.document_type,
                        detected_category |-> classification_data.category,
                        confidence |-> classification_data.confidence]
                has_ext == HasStorableExtraction(pr)
                stored_ext == has_ext /\ fault # "store_ext"
                extraction_id == IF stored_ext THEN Len(exts) + 1 ELSE 0
                ext_rows == IF stored_ext
                            THEN << [id |-> extraction_id, document_id |-> document_id,
                                     extracted_data |-> pr.extraction[1].extracted_data,
                                     confidence |-> pr.extraction[1].confidence] >>
                            ELSE <<>>
                staged == ~(delete_flag /\ rm_ok)
            IN Done(SuccessOutcome(file.filename, document_id, extraction_id, pr),
                    staged, <<row>>, ext_rows, eff2)

\* process_single_file from its start to the first suspension (the await of
\* chain.ainvoke inside classify_document): validation, staging, recognition.
\* extract_text never suspends (its OCR client call is synchronous).  Without
\* llm the classification falls back at once and the task runs to its end.
StartStep(file, llm, types, cats, docs, exts, delete_flag, fault1, fault2, rm_ok) ==
    IF ~ExtensionSupported(file)
    THEN Done(FailureOutcome(file.filename, "Type de fichier non supporte"),
              FALSE, <<>>, <<>>, NoEffects)
    ELSE IF SizeTooLarge(file)
    THEN Done(FailureOutcome(file.filename, "Fichier trop volumineux"),
              FALSE, <<>>, <<>>, NoEffects)
    ELSE IF fault1 = "stage_open"
    THEN ExceptHandler(file.filename, FALSE, rm_ok, "OSError open", NoEffects)
    ELSE IF fault1 = "stage_copy"
    THEN ExceptHandler(file.filename, TRUE, rm_ok, "OSError write",
                       [NoEffects EXCEPT !.staged = TRUE])
    ELSE LET rec == ExtractText(file)
             eff == [NoEffects EXCEPT !.staged = TRUE, !.recognizer = TRUE]
         IN IF rec.raised
            THEN ExceptHandler(file.filename, TRUE, rm_ok,
                               "Erreur lors de l'extraction du texte", eff)
            ELSE IF IsBlank(rec.text)
            THEN IF rm_ok
                 THEN Done(FailureOutcome(file.filename,
                                          "Impossible d'extraire le texte du document"),
                           FALSE, <<>>, <<>>, eff)
                 ELSE ExceptHandler(file.filename, TRUE, rm_ok, "OSError remove", eff)
            ELSE IF ~llm
            THEN LET cls == ClassifyDocument(types, cats, llm, rec.text,
                                             FailReply("raise"), FailReply("raise"))
                 IN IF cls.raised
                    THEN ExceptHandler(file.filename, TRUE, rm_ok, "classify raised", eff)
                    ELSE PersistAndReturn(file, rec.text, PrClassificationFailed(cls),
                                          docs, exts, delete_flag, fault2, rm_ok, eff)
            ELSE Suspended("classify", rec.text, Nothing,
                           [eff EXCEPT !.inference = TRUE])

\* From the answer of chain.ainvoke to the next suspension (the await of
\* extraction_chain.ainvoke) or, when the classification failed, to the end.
ClassifyStep(file, text, llm, types, cats, docs, exts, delete_flag, reply1, reply2, fault2, rm_ok, eff) ==
    LET cls == ClassifyDocument(types, cats, llm, text, reply1, reply2)
    IN IF cls.raised
       THEN ExceptHandler(file.filename, TRUE, rm_ok, "classify raised", eff)
       ELSE IF ~cls.success
       THEN PersistAndReturn(file, text, PrClassificationFailed(cls),
                             docs, exts, delete_flag, fault2, rm_ok, eff)
       ELSE IF ~llm
       THEN PersistAndReturn(file, text, PrComplete(cls, ExtractWithoutLlm),
                             docs, exts, delete_flag, fault2, rm_ok, eff)
       ELSE Suspended("extract", text, Some(cls), eff)

\* From the answer of extraction_chain.ainvoke to the end of the task.
ExtractStep(file, text, cls, cats, docs, exts, delete_flag, ereply, fault2, rm_ok, eff) ==
    LET ext == ExtractDocumentData(cats, cls.classification.document_type, ereply)
    IN PersistAndReturn(file, text, PrComplete(cls, ext),
                        docs, exts, delete_flag, fault2, rm_ok, eff)

(***************************************************************************)
(* main.py: process_multiple_files                                         *)
(***************************************************************************)
MaxConcurrent == 5
SynthesisConfidence == 85

\* `async with semaphore`: the task enters when a slot is free.
SemaphoreUnguarded(value) == TRUE
SemaphoreCanAcquire(value) == value > 0

\* asyncio.gather(*tasks, return_exceptions=True): the result of task i is the
\* i-th element of the list, whenever the task completes.
GatherCompletionOrder(i, res) ==
    CHOOSE k \in 1..Len(res) : res[k] = Nothing /\ \A j \in 1..(k - 1) : res[j] # Nothing
GatherSlot(i, res) == i

\* return_exceptions=True: an exception that escapes a task is returned in the
\* list instead of being raised by gather.
GatherPropagates == FALSE
GatherReturnExceptions == TRUE

\* Lines 230-240: an exception in the list becomes a failure dict carrying the
\* file's name.
ProcessedResult(file, result) ==
    IF result.kind = "exception"
    THEN FailureOutcome(file.filename, "Erreur de traitement")
    ELSE result

\* A slip of line 243: counting every result.
SuccessfulCountAll(processed) == Len(processed)
\* Line 243.
SuccessfulCount(processed) ==
    Cardinality({k \in 1..Len(processed) : processed[k].success})

\* Lines 246-254.
ResponseContent(fs, processed) ==
    [success |-> TRUE,
     total_files |-> Len(fs),
     successful_count |-> SuccessfulCount(processed),
     failed_count |-> Len(fs) - SuccessfulCount(processed),
     results |-> processed,
     synthesis |-> Nothing]

\* Lines 260-263.
SuccessfulDocumentIds(processed) ==
    {processed[k].document_id : k \in {j \in 1..Len(processed) : processed[j].success}}

\* A slip of lines 277-293: a failed synthesis failing the batch response.
WithSynthesisAborting(content, outcome) ==
    IF outcome = "synthesis_error"
    THEN [content EXCEPT !.success = FALSE, !.successful_count = 0,
                         !.failed_count = content.total_files,
                         !.results = <<>>, !.synthesis = Some(outcome)]
    ELSE [content EXCEPT !.synthesis = Some(outcome)]
\* Lines 272-293: the outcome of generate_complete_synthesis is added to the
\* response under "synthesis"; nothing else of the response is touched.
WithSynthesis(content, outcome) == [content EXCEPT !.synthesis = Some(outcome)]

\* What the collaborators and the operating system can do in a run.
Env(faults1, faults2, rm_ok, classify, strict, extract, synth) ==
    [faults1 |-> faults1, faults2 |-> faults2, rm_ok |-> rm_ok, classify |-> classify,
     strict |-> strict, extract |-> extract, synth |-> synth]

BatchClassifyReplies ==
    {OkReply(S_KBIS, "Company", 90), OkReply(S_KBIS, "Revenus", 100),
     OkReply(S_Autre, "Object", 0), OkReply(S_Devis, "Object", 70),
     OkReply(S_Bail, "Patrimoine immobilier", 150), OkReply(S_Avis, "Revenus", -10),
     FailReply("raise")}
BatchStrictReplies ==
    {OkReply(S_Bail, "Revenus", 80), OkReply(S_KBIS, "Company", 130), FailReply("raise")}

FullEnv ==
    Env({"none", "stage_open", "stage_copy"}, {"none", "store", "store_ext"}, BOOLEAN,
        BatchClassifyReplies, BatchStrictReplies, ExtractReplies,
        {"ok", "synthesis_error", "render_error"})

\* Reliable collaborators: every failure comes from the files themselves.
PoolEnv ==
    Env({"none"}, {"none"}, {TRUE}, {OkReply(S_KBIS, "Company", 90)},
        {FailReply("raise")}, {"ok"}, {"ok"})

\* A slip of the INSERT statements: INSERT OR REPLACE on the latest row.
InsertOrReplaceRows(table, rows) ==
    IF rows = <<>> \/ table = <<>> THEN table \o rows
    ELSE SubSeq(table, 1, Len(table) - 1) \o rows
\* database.insert_document, insert_document_extraction: INSERT INTO, commit.
InsertRows(table, rows) == table \o rows

Held == {i \in 1..Len(files) : task[i].pc \in {"classify", "extract"}}

\* The effect of one step of task i on the shared state.
Apply(i, r, acquires) ==
    /\ task' = [task EXCEPT ![i] =
                    [pc |-> r.pc, text |-> r.text, cls |-> r.cls,
                     result |-> IF r.pc = "done" THEN Some(r.outcome) ELSE Nothing]]
    /\ results' = IF r.pc = "done"
                  THEN [results EXCEPT ![GatherSlot(i, results)] = Some(r.outcome)]
                  ELSE results
    /\ disk' = IF r.staged THEN disk \cup {i} ELSE disk \ {i}
    /\ documents' = InsertRows(documents, r.new_docs)
    /\ extractions' = InsertRows(extractions, r.new_exts)
    /\ effects' = [effects EXCEPT ![i] = r.eff]
    /\ semaphore' = semaphore - (IF acquires THEN 1 ELSE 0) + (IF r.pc = "done" THEN 1 ELSE 0)
    /\ UNCHANGED <<clsVars, call, files, response, config_delete, batch, syntheses, calls, pools>>

\* process_with_semaphore: the task acquires a slot and runs process_single_file
\* to its first suspension.
Start(i, env) ==
    /\ batch.pc = "gather"
    /\ task[i].pc = "queued"
    /\ SemaphoreCanAcquire(semaphore)
    /\ \E fault1 \in env.faults1, fault2 \in env.faults2, rm_ok \in env.rm_ok :
          Apply(i, StartStep(files[i], has_llm, document_types, categories, documents,
                             extractions, config_delete, fault1, fault2, rm_ok), TRUE)

\* The classification call of task i answers.
ClassifyReturn(i, env) ==
    /\ batch.pc = "gather"
    /\ task[i].pc = "classify"
    /\ \E reply1 \in env.classify, reply2 \in env.strict,
          fault2 \in env.faults2, rm_ok \in env.rm_ok :
          Apply(i, ClassifyStep(files[i], task[i].text, has_llm, document_types,
                                categories, documents, extractions, config_delete,
                                reply1, reply2, fault2, rm_ok, effects[i]), FALSE)

\* The extraction call of task i answers.
ExtractReturn(i, env) ==
    /\ batch.pc = "gather"
    /\ task[i].pc = "extract"
    /\ \E ereply \in env.extract, fault2 \in env.faults2, rm_ok \in env.rm_ok :
          Apply(i, ExtractStep(files[i], task[i].text, task[i].cls[1], categories,
                               documents, extractions, config_delete,
                               ereply, fault2, rm_ok, effects[i]), FALSE)

\* asyncio.gather returns once every task is done; lines 230-265 build the
\* response.  With generate_synthesis and a successful document the synthesis
\* is awaited, else the response is returned.
GatherReturn ==
    /\ batch.pc = "gather"
    /\ \A i \in 1..Len(files) : task[i].pc = "done"
    /\ \A k \in 1..Len(results) : results[k] # Nothing
    /\ LET raised == ~GatherReturnExceptions
                        /\ \E k \in 1..Len(results) : results[k][1].kind = "exception"
           processed == [k \in 1..Len(results) |-> ProcessedResult(files[k], results[k][1])]
           content == ResponseContent(files, processed)
       IN IF raised
          THEN /\ batch' = [batch EXCEPT !.pc = "raised"]
               /\ UNCHANGED response
          ELSE /\ response' = Some(content)
               /\ batch' = [batch EXCEPT !.pc =
                      IF batch.generate_synthesis /\ content.successful_count > 0
                         /\ SuccessfulDocumentIds(processed) # {}
                      THEN "synthesis" ELSE "returned"]
    /\ UNCHANGED <<clsVars, call, files, task, results, disk, documents, extractions,
                   effects, semaphore, config_delete, syntheses, calls, pools>>

\* generate_complete_synthesis answers (lines 268-305): a stored synthesis and a
\* rendered document, a failed synthesis (nothing stored), or a stored
\* synthesis whose rendering failed; every failure is reported in the response.
SynthesisReturn(env) ==
    /\ batch.pc = "synthesis"
    /\ \E outcome \in env.synth :
          /\ syntheses' =
                IF outcome = "synthesis_error" THEN syntheses
                ELSE Append(syntheses,
                            [input_documents |-> SuccessfulDocumentIds(response[1].results),
                             confidence |-> SynthesisConfidence])
          /\ response' = Some(WithSynthesis(response[1], outcome))
    /\ batch' = [batch EXCEPT !.pc = "returned"]
    /\ UNCHANGED <<clsVars, call, files, task, results, disk, documents, extractions,
                   effects, semaphore, config_delete, calls, pools>>

(***************************************************************************)
(* Specifications of the batch                                             *)
(***************************************************************************)
MaxFiles == 2
PoolSize == 8

FileKinds == {F_GoodPdf, F_UpperPdf, F_Txt, F_TooBig, F_BlankJpg, F_Corrupt}

\* The state when process_multiple_files has created its tasks: the services
\* are initialised (lifespan), the catalog is loaded, no task has started.
InitBatch(fs) ==
    /\ document_types = LoadDocumentTypes(DbFull, TRUE).document_types
    /\ categories = LoadDocumentTypes(DbFull, TRUE).categories
    /\ call = IdleCall
    /\ files = fs
    /\ task = [i \in 1..Len(fs) |-> [pc |-> "queued", text |-> <<>>, cls |-> Nothing,
                                   result |-> Nothing]]
    /\ results = [i \in 1..Len(fs) |-> Nothing]
    /\ disk = {}
    /\ documents = <<>>
    /\ extractions = <<>>
    /\ effects = [i \in 1..Len(fs) |-> NoEffects]
    /\ response = Nothing
    /\ semaphore = MaxConcurrent
    /\ syntheses = <<>>
    /\ calls = NoSynth
    /\ pools = <<>>

\* --- POST /upload-multiple with up to MaxFiles files ----------------------
FilesUpTo(n) == UNION {[1..k -> FileKinds] : k \in 1..n}

\* Collaborators that answer or fail, an operating system whose writes and
\* removals can fail.
BatchEnv ==
    Env({"none", "stage_copy"}, {"none", "store"}, BOOLEAN,
        {OkReply(S_KBIS, "Company", 90), FailReply("raise")},
        {FailReply("raise")}, {"ok", "raise"}, {"ok", "synthesis_error"})

Init ==
    /\ \E fs \in FilesUpTo(MaxFiles) : InitBatch(fs)
    /\ has_llm \in BOOLEAN
    /\ config_delete \in BOOLEAN
    /\ \E g \in BOOLEAN : batch = [pc |-> "gather", generate_synthesis |-> g]

Next ==
    \/ \E i \in 1..Len(files) : Start(i, BatchEnv)
    \/ \E i \in 1..Len(files) : ClassifyReturn(i, BatchEnv)
    \/ \E i \in 1..Len(files) : ExtractReturn(i, BatchEnv)
    \/ GatherReturn
    \/ SynthesisReturn(BatchEnv)

Spec == Init /\ [][Next]_vars

\* --- One document: POST /upload, or POST /upload-multiple with one file ----
\* Every behaviour of the collaborators and every configuration.
UploadKinds == FileKinds \cup {F_OcrFailed}

InitUpload ==
    /\ \E f \in UploadKinds : InitBatch(<<f>>)
    /\ has_llm \in BOOLEAN
    /\ config_delete \in BOOLEAN
    /\ \E g \in BOOLEAN : batch = [pc |-> "gather", generate_synthesis |-> g]

NextUpload ==
    \/ \E i \in 1..Len(files) : Start(i, FullEnv)
    \/ \E i \in 1..Len(files) : ClassifyReturn(i, FullEnv)
    \/ \E i \in 1..Len(files) : ExtractReturn(i, FullEnv)
    \/ GatherReturn
    \/ SynthesisReturn(FullEnv)

SpecUpload == InitUpload /\ [][NextUpload]_vars

\* --- More files than semaphore slots --------------------------------------
\* One unsupported file, one unreadable file, the others good; reliable
\* collaborators.
PoolFiles ==
    [i \in 1..PoolSize |-> IF i = 2 THEN F_Txt ELSE IF i = 4 THEN F_Corrupt ELSE F_GoodPdf]

InitPool ==
    /\ InitBatch(PoolFiles)
    /\ has_llm = TRUE
    /\ config_delete = TRUE
    /\ batch = [pc |-> "gather", generate_synthesis |-> TRUE]

NextPool ==
    \/ \E i \in 1..Len(files) : Start(i, PoolEnv)
    \/ \E i \in 1..Len(files) : ClassifyReturn(i, PoolEnv)
    \/ \E i \in 1..Len(files) : ExtractReturn(i, PoolEnv)
    \/ GatherReturn
    \/ SynthesisReturn(PoolEnv)

SpecPool == InitPool /\ [][NextPool]_vars

(***************************************************************************)
(* Properties of the batch                                                 *)
(***************************************************************************)
Tasks == 1..Len(files)
TaskDone(i) == task[i].pc = "done" /\ task[i].result # Nothing
Responded == response # Nothing

\* C3: every confidence stored with a document row, an extraction row or a
\* synthesis row lies in [0,1] (0..100 hundredths), whatever confidence the
\* Inference collaborator returned and on the fallback path as well.
C3_StoredConfidenceInRange ==
    /\ \A k \in 1..Len(documents) :
          0 <= documents[k].confidence /\ documents[k].confidence <= 100
    /\ \A k \in 1..Len(extractions) :
          0 <= extractions[k].confidence /\ extractions[k].confidence <= 100
    /\ \A k \in 1..Len(syntheses) :
          0 <= syntheses[k].confidence /\ syntheses[k].confidence <= 100

\* A document row was stored after Inference answered with a confidence
\* outside [0,1]: the reply was rejected and the fallback's confidence stored.
C3_Witness ==
    \E i \in Tasks :
        /\ TaskDone(i)
        /\ task[i].result[1].processing_result # Nothing
        /\ task[i].result[1].processing_result[1].classification.error_message
              = "ValidationError"
        /\ task[i].result[1].document_id \in 1..Len(documents)
        /\ documents[task[i].result[1].document_id].confidence = FallbackKeywordConfidence

\* The errors a document's own processing can end with: those of its own file
\* and those of the operating system or the store during its own steps.
C4_OwnErrors(file) ==
    {"OSError open", "OSError write", "OSError remove", "sqlite3.Error"}
        \cup (IF ~EndsWithAny(Lower(file.filename), SUPPORTED_EXTENSIONS)
              THEN {"Type de fichier non supporte"} ELSE {})
        \cup (IF file.size > MAX_FILE_SIZE THEN {"Fichier trop volumineux"} ELSE {})
        \cup (IF file.content = "corrupt"
              THEN {"Erreur lors de l'extraction du texte"} ELSE {})
        \cup (IF file.content = "blank"
              THEN {"Impossible d'extraire le texte du document"} ELSE {})

\* C4: a failure of one document, at any stage, is the failure outcome of that
\* document only: the batch never raises, every document runs to its own
\* outcome before the response is built, and a failed outcome carries an error
\* of that document's own processing; an escaped exception is reported as a
\* failure of its own document.
C4_BatchIsolation ==
    /\ batch.pc # "raised"
    /\ \A i \in Tasks : task[i].pc = "done" => task[i].result # Nothing
    /\ \A i \in Tasks :
          (TaskDone(i) /\ ~task[i].result[1].success)
              => task[i].result[1].error \in C4_OwnErrors(files[i])
    /\ Responded =>
          /\ Len(response[1].results) = Len(files)
          /\ \A i \in Tasks :
                /\ TaskDone(i)
                /\ task[i].result[1].kind = "exception"
                      => /\ ~response[1].results[i].success
                         /\ response[1].results[i].error = "Erreur de traitement"
                /\ task[i].result[1].kind = "dict"
                      => response[1].results[i] = task[i].result[1]

\* The first document's task ended with an escaped exception, the second
\* document was processed and stored.
C4_Witness ==
    /\ Responded
    /\ Len(files) = 2
    /\ task[1].result[1].kind = "exception"
    /\ ~response[1].results[1].success
    /\ response[1].results[2].success
    /\ response[1].results[2].document_id \in 1..Len(documents)

\* C5: at most MaxConcurrent documents are being processed at any time, each
\* of them holding one slot of the semaphore.
C5_AtMostFiveHeld ==
    /\ Cardinality(Held) <= MaxConcurrent
    /\ semaphore >= 0
    /\ Cardinality(Held) = MaxConcurrent - semaphore

\* Five documents are being processed while another one waits for a slot.
C5_Witness ==
    /\ Cardinality(Held) = MaxConcurrent
    /\ semaphore = 0
    /\ \E i \in Tasks : task[i].pc = "queued"

\* C6: the i-th outcome of the response is the outcome of the i-th input
\* document, whatever the order of completion, exceptions included.
C6_OrderPreserved ==
    Responded =>
        /\ Len(response[1].results) = Len(files)
        /\ \A i \in Tasks :
              /\ response[1].results[i].filename = files[i].filename
              /\ response[1].results[i] = ProcessedResult(files[i], task[i].result[1])

\* Two documents of different names, the second one stored before the first.
C6_Witness ==
    /\ Responded
    /\ Len(files) = 2
    /\ files[1].filename # files[2].filename
    /\ Len(documents) = 2
    /\ documents[1].filename = files[2].filename
    /\ documents[2].filename = files[1].filename
    /\ response[1].results[1].document_id = 2
    /\ response[1].results[2].document_id = 1

\* C7: the response holds one outcome per input document; total_files is the
\* number of inputs, successful_count the number of outcomes marked success,
\* and successful_count + failed_count = total_files.
C7_CountsConsistent ==
    Responded =>
        LET r == response[1]
        IN /\ Len(r.results) = Len(files)
           /\ r.total_files = Len(files)
           /\ r.successful_count =
                 Cardinality({k \in 1..Len(r.results) : r.results[k].success})
           /\ r.successful_count + r.failed_count = r.total_files

\* A response with one success and one failure.
C7_Witness ==
    /\ Responded
    /\ response[1].total_files = 2
    /\ response[1].successful_count = 1
    /\ response[1].failed_count = 1

\* The extension is not in the supported set or the size exceeds the ceiling.
C8_Invalid(file) ==
    \/ \A e \in SUPPORTED_EXTENSIONS : ~EndsWith(Lower(file.filename), e)
    \/ file.size > MAX_FILE_SIZE

\* C8: a document with an unsupported extension or an excessive size gets a
\* failure outcome, and nothing is done for it: no staging write, no
\* Recognizer call, no Inference call, no store write.
C8_ValidationFirst ==
    \A i \in Tasks :
        C8_Invalid(files[i]) =>
            /\ effects[i] = NoEffects
            /\ i \notin disk
            /\ task[i].pc \in {"queued", "done"}
            /\ \A k \in 1..Len(documents) : documents[k].filename # files[i].filename
            /\ TaskDone(i) =>
                  /\ task[i].result[1].kind = "dict"
                  /\ ~task[i].result[1].success
                  /\ task[i].result[1].document_id = 0
                  /\ task[i].result[1].error
                        \in {"Type de fichier non supporte", "Fichier trop volumineux"}

\* An invalid document was refused while a sibling was staged and stored.
C8_Witness ==
    \E i, j \in Tasks :
        /\ C8_Invalid(files[i])
        /\ TaskDone(i)
        /\ ~C8_Invalid(files[j])
        /\ effects[j].store
        /\ Len(documents) = 1

\* The classification of document i fell back after the Inference call failed
\* or was rejected.
C10_FellBack(i) ==
    /\ TaskDone(i)
    /\ effects[i].inference
    /\ task[i].result[1].processing_result # Nothing
    /\ ~task[i].result[1].processing_result[1].classification.success

\* C10: a classification failure is recovered by the keyword fallback and the
\* processing continues to extraction with the fallback type, instead of the
\* document's processing being reported as failed.
C10_FallbackContinuesToExtraction ==
    \A i \in Tasks :
        C10_FellBack(i) =>
            LET pr == task[i].result[1].processing_result[1]
            IN /\ pr.extraction # Nothing
               /\ pr.error # "Echec de la classification"

\* The extraction of document i ran and failed.
C12_ExtractionFailed(i) ==
    /\ TaskDone(i)
    /\ task[i].result[1].processing_result # Nothing
    /\ task[i].result[1].processing_result[1].extraction # Nothing
    /\ ~task[i].result[1].processing_result[1].extraction[1].success

\* C12: a document whose extraction failed is not lost: its row is stored with
\* its classification, its outcome is in the response, the extraction carries
\* no data but an error text, and no extraction row is stored for it.
C12_FailedExtractionKeepsDocument ==
    \A i \in Tasks :
        C12_ExtractionFailed(i) =>
            LET o == task[i].result[1]
                pr == o.processing_result[1]
                c == pr.classification.classification
            IN /\ o.success
               /\ o.document_id \in 1..Len(documents)
               /\ documents[o.document_id].filename = files[i].filename
               /\ documents[o.document_id].detected_type = c.document_type
               /\ documents[o.document_id].detected_category = c.category
               /\ documents[o.document_id].confidence = c.confidence
               /\ o.extraction_id = 0
               /\ pr.extraction[1].extracted_data = Nothing
               /\ pr.extraction[1].error # None
               /\ \A k \in 1..Len(extractions) :
                     extractions[k].document_id # o.document_id
               /\ Responded => response[1].results[i] = o

\* The response of a batch holds a stored document whose extraction failed.
C12_Witness ==
    /\ Responded
    /\ \E i \in Tasks :
          /\ C12_ExtractionFailed(i)
          /\ response[1].results[i].success
          /\ response[1].results[i].document_id \in 1..Len(documents)

(***************************************************************************)
(* A collaborator that may never answer                                    *)
(***************************************************************************)
\* The awaited chain.ainvoke / extraction_chain.ainvoke of task i never
\* answers.  No call of the code carries a timeout (ChatOpenAI(api_key, model,
\* temperature), llm_classifier.py lines 33-37) and nothing wraps the awaits in
\* a deadline: the task stays suspended inside `async with semaphore`.
CallNeverAnswers(i) ==
    /\ batch.pc = "gather"
    /\ task[i].pc \in {"classify", "extract"}
    /\ task' = [task EXCEPT ![i].pc = "hung"]
    /\ UNCHANGED <<clsVars, call, files, results, disk, documents, extractions, effects,
                   response, semaphore, config_delete, batch, syntheses, calls, pools>>

NextHang ==
    \/ \E i \in 1..Len(files) : Start(i, PoolEnv)
    \/ \E i \in 1..Len(files) : ClassifyReturn(i, PoolEnv)
    \/ \E i \in 1..Len(files) : ExtractReturn(i, PoolEnv)
    \/ \E i \in 1..Len(files) : CallNeverAnswers(i)
    \/ GatherReturn
    \/ SynthesisReturn(PoolEnv)

SpecHang == Init /\ [][NextHang]_vars

\* C13: a document whose Recognizer or Inference call never answers still gets
\* a failure outcome and frees its slot, and the batch returns: as long as a
\* call is pending without answer, some step of the batch (the call's timeout)
\* remains possible.
C13_PendingCallTimesOut ==
    (\E i \in Tasks : task[i].pc = "hung") => ENABLED NextHang

\* C14: the deletion of a document's staged copy is governed by the policy
\* flag, on success and on failure: with the flag off the staged copy is still
\* there when the processing has completed, and a failing deletion never shows
\* in the document's outcome.
C14_DeletionGovernedByFlag ==
    \A i \in Tasks :
        (TaskDone(i) /\ effects[i].staged) =>
            /\ ~config_delete => i \in disk
            /\ task[i].result[1].kind = "dict"
            /\ task[i].result[1].error # "OSError remove"

\* C15: a synthesis needs at least one selected document with an extraction:
\* without one it fails with NoUsableInput and nothing is stored, so every
\* stored synthesis has an input document that has an extraction row.
C15_SynthesisNeedsExtraction ==
    \A k \in 1..Len(syntheses) :
        \E e \in 1..Len(extractions) :
            extractions[e].document_id \in syntheses[k].input_documents

(***************************************************************************)
(* services/synthesis_generator.py: generate_complete_synthesis            *)
(***************************************************************************)
MaxRequests == 2
MaxClock == 2
TicksPerSecond == 2

\* generate_synthesis, lines 512-515: the sections in the order of generation.
Sections ==
    <<"synthese_projet", "profil_emprunteur", "revenus", "patrimoine_immobilier",
      "patrimoine_mobilier", "societes", "plan_financement", "analyse_financiere">>

\* _generate_dossier_id: "DOSS-" and datetime.now() formatted to the second.
GenerateDossierId(clock) == clock \div TicksPerSecond

\* database.get_documents_with_extractions: documents LEFT JOIN
\* document_extractions for the requested ids; a document without extraction
\* row comes with extracted_data NULL.  The rows are kept as a set (their
\* order, by category and type, is not read by any section).
GetDocumentsWithExtractions(docs, exts, document_ids) ==
    LET Joined(d) ==
            {[document_id |-> docs[d].id, filename |-> docs[d].filename,
              detected_type |-> docs[d].detected_type,
              detected_category |-> docs[d].detected_category,
              extracted_data |-> exts[e].extracted_data] :
                e \in {x \in 1..Len(exts) : exts[x].document_id = docs[d].id}}
        Alone(d) ==
            {[document_id |-> docs[d].id, filename |-> docs[d].filename,
              detected_type |-> docs[d].detected_type,
              detected_category |-> docs[d].detected_category,
              extracted_data |-> Nothing]}
    IN UNION {IF Joined(d) = {} THEN Alone(d) ELSE Joined(d) :
                d \in {x \in 1..Len(docs) : docs[x].id \in document_ids}}

\* _get_all_extractions_with_texts: one entry of all_extractions per fetched
\* row, and the raw text of every requested document that exists.
GetAllExtractionsWithTexts(docs, exts, document_ids) ==
    [extractions |-> GetDocumentsWithExtractions(docs, exts, document_ids),
     raw_texts |-> {docs[d].id : d \in {x \in 1..Len(docs) : docs[x].id \in document_ids}}]

\* _create_section_prompt, lines 101-102: the extractions a section's prompt
\* holds (extractions_json): all of them, whatever the section.
SectionPromptInput(section, extractions_data) == extractions_data.extractions

\* The answers of a section's chain.ainvoke.  schemas.PatrimoineMobilier: the
\* amounts and the total are strings the Inference collaborator fills.
Amount_12500 == <<"1", "2", " ", "5", "0", "0", " ", "E">>
Amount_3200_50 == <<"3", " ", "2", "0", "0", ",", "5", "0", " ", "E">>
Amount_15700_50 == <<"1", "5", " ", "7", "0", "0", ",", "5", "0", " ", "E">>
Amount_NonSpecifie == <<"N", "o", "n", " ", "s", "p", "e", "c", "i", "f", "i", "e">>

PatrimoineMobilier(comptes, epargne, assurance, total) ==
    [comptes_bancaires |-> comptes, epargne_financiere |-> epargne,
     assurance_vie |-> assurance, patrimoine_mobilier_total |-> total]

PatrimoineReplies ==
    {PatrimoineMobilier(Amount_12500, Amount_NonSpecifie, Amount_3200_50, Amount_15700_50),
     PatrimoineMobilier(Amount_12500, Amount_NonSpecifie, Amount_3200_50, Amount_12500)}

SectionReplies(section) ==
    IF section = "patrimoine_mobilier"
    THEN {[kind |-> "ok", value |-> Some(v)] : v \in PatrimoineReplies}
           \cup {[kind |-> "raise", value |-> Nothing]}
    ELSE {[kind |-> "ok", value |-> Nothing], [kind |-> "raise", value |-> Nothing]}

\* _generate_section, lines 484-491: what a failed section returns.  "societes"
\* gives an empty list; any other section builds its model without arguments,
\* which raises (every section model has required fields).
SectionFailureRaises(section) == section # "societes"

\* The dicts generate_complete_synthesis returns.
SynthesisFailure(error) ==
    [success |-> FALSE, error |-> error, dossier_id |-> -1, synthese_id |-> 0,
     synthese |-> Nothing, word_document |-> FALSE]
SynthesisSuccess(dossier_id, synthese_id, synthese, word_ok) ==
    [success |-> TRUE, error |-> None, dossier_id |-> dossier_id,
     synthese_id |-> synthese_id, synthese |-> Some(synthese),
     word_document |-> word_ok]

\* A slip of lines 596-614: a failed rendering failing the whole request.
CompleteResultStrict(dossier_id, synthese_id, synthese, word_ok) ==
    IF word_ok THEN SynthesisSuccess(dossier_id, synthese_id, synthese, word_ok)
    ELSE SynthesisFailure("RenderError")
\* generate_complete_synthesis, lines 596-614: generate_word_document returns
\* a dict, a failure dict when the rendering raised (word_generator.py
\* 332-337); it is put next to the synthesis in a successful answer.
CompleteResult(dossier_id, synthese_id, synthese, word_ok) ==
    SynthesisSuccess(dossier_id, synthese_id, synthese, word_ok)

\* The locals of a request that has not fetched or has returned.
NoResult == [patrimoine_mobilier |-> Nothing, societes |-> TRUE]
NoExtractions == [extractions |-> {}, raw_texts |-> {}]

\* A request from its creation to the await of its first section: the fetch
\* of the selected documents (lines 505-506), then the first chain.ainvoke.
GenerateBegin(document_ids) ==
    /\ Len(calls.requests) < MaxRequests
    /\ calls' = [calls EXCEPT !.requests =
                    Append(@, [pc |-> "section", section |-> 1,
                               document_ids |-> document_ids,
                               extractions_data |->
                                   GetAllExtractionsWithTexts(documents, extractions,
                                                              document_ids),
                               synthesis_result |-> NoResult,
                               failed |-> {},
                               word |-> "none",
                               result |-> Nothing])]
    /\ UNCHANGED <<clsVars, call, files, task, results, disk, documents, extractions,
                   effects, response, semaphore, config_delete, batch, syntheses, pools>>

\* The row insert_synthese writes (line 553-558) for a finished synthesis.
SyntheseRow(id, dossier_id, document_ids, synthesis_result) ==
    [id |-> id, dossier_id |-> dossier_id, input_documents |-> document_ids,
     synthese |-> synthesis_result, confidence |-> SynthesisConfidence]

\* The chain.ainvoke of the current section of request r answers.  A failed
\* section other than "societes" ends the request with a failure and nothing
\* stored.  After the last section the synthesis is stamped, stored (a store
\* error ends the request with a failure) and rendered by the Word generator,
\* whose own failure is returned inside a successful answer.
SectionReturn(r, reply, store_ok, word_ok) ==
    LET req == calls.requests[r]
        section == Sections[req.section]
        synthesis_result ==
            IF section = "patrimoine_mobilier" /\ reply.kind = "ok"
            THEN [req.synthesis_result EXCEPT !.patrimoine_mobilier = reply.value]
            ELSE IF section = "societes"
            THEN [req.synthesis_result EXCEPT !.societes = (reply.kind = "ok")]
            ELSE req.synthesis_result
        dossier_id == GenerateDossierId(calls.clock)
        synthese_id == Len(syntheses) + 1
        failed == IF reply.kind = "raise" THEN req.failed \cup {section} ELSE req.failed
        Finish(result) ==
            [req EXCEPT !.pc = "returned", !.section = 0,
                        !.extractions_data = NoExtractions,
                        !.synthesis_result = NoResult, !.failed = failed,
                        !.result = Some(result)]
    IN /\ req.pc = "section"
       /\ IF reply.kind = "raise" /\ SectionFailureRaises(section)
          THEN /\ calls' = [calls EXCEPT !.requests[r] =
                               Finish(SynthesisFailure("ValidationError"))]
               /\ UNCHANGED syntheses
          ELSE IF req.section < Len(Sections)
          THEN /\ calls' = [calls EXCEPT !.requests[r] =
                               [req EXCEPT !.section = @ + 1,
                                           !.synthesis_result = synthesis_result,
                                           !.failed = failed]]
               /\ UNCHANGED syntheses
          ELSE IF ~store_ok
          THEN /\ calls' = [calls EXCEPT !.requests[r] =
                               Finish(SynthesisFailure("sqlite3.Error"))]
               /\ UNCHANGED syntheses
          ELSE /\ calls' = [calls EXCEPT !.requests[r] =
                               [Finish(CompleteResult(dossier_id, synthese_id,
                                                      synthesis_result, word_ok))
                                   EXCEPT !.word = IF word_ok THEN "ok" ELSE "error"]]
               /\ syntheses' = Append(syntheses,
                                      SyntheseRow(synthese_id, dossier_id,
                                                  req.document_ids, synthesis_result))
       /\ UNCHANGED <<clsVars, call, files, task, results, disk, documents, extractions,
                      effects, response, semaphore, config_delete, batch, pools>>

\* Time passes (datetime.now() is read at the stamping).
Tick ==
    /\ calls.clock < MaxClock
    /\ calls' = [calls EXCEPT !.clock = @ + 1]
    /\ UNCHANGED <<clsVars, call, files, task, results, disk, documents, extractions,
                   effects, response, semaphore, config_delete, batch, syntheses, pools>>

\* The store before the requests: three documents the pipeline has persisted,
\* the second with a category and a type name of the Inference collaborator's
\* own making, the third without extraction row.
StoredDocument(id, filename, detected_type, detected_category) ==
    [id |-> id, filename |-> filename, extracted_text |-> T_Kbis,
     detected_type |-> detected_type, detected_category |-> detected_category,
     confidence |-> 90]
StoredExtraction(id, document_id, document_type, category) ==
    [id |-> id, document_id |-> document_id,
     extracted_data |-> Some([document_type |-> document_type, category |-> category]),
     confidence |-> ExtractionConfidence]
StoredDocuments ==
    << StoredDocument(1, "a.pdf", S_KBIS, "Company"),
       StoredDocument(2, "b.PDF", S_Devis, "Inconnue"),
       StoredDocument(3, "d.jpg", S_Bail, "Patrimoine immobilier") >>
StoredExtractions ==
    << StoredExtraction(1, 1, S_KBIS, "Company"),
       StoredExtraction(2, 2, S_Devis, "Autre") >>

\* The document_ids of POST /generate-synthesis.
RequestedIds == {{1, 2, 3}, {3}, {}}

InitSynth ==
    /\ document_types = LoadDocumentTypes(DbFull, TRUE).document_types
    /\ categories = LoadDocumentTypes(DbFull, TRUE).categories
    /\ has_llm = TRUE
    /\ call = IdleCall
    /\ files = <<>>
    /\ task = <<>>
    /\ results = <<>>
    /\ disk = {}
    /\ documents = StoredDocuments
    /\ extractions = StoredExtractions
    /\ effects = <<>>
    /\ response = Nothing
    /\ semaphore = 0
    /\ config_delete = TRUE
    /\ batch = [pc |-> "none", generate_synthesis |-> FALSE]
    /\ syntheses = <<>>
    /\ calls = NoSynth
    /\ pools = <<>>

NextSynth ==
    \/ \E document_ids \in RequestedIds : GenerateBegin(document_ids)
    \/ \E r \in {x \in 1..Len(calls.requests) : calls.requests[x].pc = "section"} :
          \E reply \in SectionReplies(Sections[calls.requests[r].section]),
             store_ok \in BOOLEAN, word_ok \in BOOLEAN :
                SectionReturn(r, reply, store_ok, word_ok)
    \/ Tick

SpecSynth == InitSynth /\ [][NextSynth]_vars

\* C16: the routing of a synthesis is total and exclusive: every fetched
\* record is in the input of exactly one section, and a record whose category
\* is not a catalog category and whose type name is no catalog name is in the
\* input of the borrower section (profil_emprunteur) only.
C16_RoutingTotalExclusive ==
    \A r \in 1..Len(calls.requests) :
        LET data == calls.requests[r].extractions_data
        IN \A rec \in data.extractions :
              LET buckets == {k \in 1..Len(Sections) :
                                 rec \in SectionPromptInput(Sections[k], data)}
              IN /\ Cardinality(buckets) = 1
                 /\ (/\ ~InTypes(document_types, rec.detected_type)
                     /\ \A c \in categories : c[2] # rec.detected_category)
                       => Sections[CHOOSE k \in buckets : TRUE] = "profil_emprunteur"

\* Requests that have returned, and their results.
RequestReturned(r) == calls.requests[r].pc = "returned"
RequestSucceeded(r) == RequestReturned(r) /\ calls.requests[r].result[1].success

\* Every successful request has stored exactly the row it reports.
SynthStoreConsistent ==
    \A r \in 1..Len(calls.requests) :
        RequestSucceeded(r) =>
            LET id == calls.requests[r].result[1].synthese_id
            IN /\ id \in 1..Len(syntheses)
               /\ syntheses[id].input_documents = calls.requests[r].document_ids

\* Reading an amount: the currency marker ("E" stands for the euro sign) and
\* the thousands separators are removed, a decimal comma may follow; the value
\* is in cents, or Nothing when the text is no number.
Digits == <<"0", "1", "2", "3", "4", "5", "6", "7", "8", "9">>
IsDigit(c) == \E d \in 1..Len(Digits) : Digits[d] = c
DigitValue(c) == (CHOOSE d \in 1..Len(Digits) : Digits[d] = c) - 1

RECURSIVE DigitsValue(_)
DigitsValue(ds) ==
    IF ds = <<>> THEN 0
    ELSE DigitsValue(SubSeq(ds, 1, Len(ds) - 1)) * 10 + DigitValue(ds[Len(ds)])

AllDigits(ds) == ds # <<>> /\ \A i \in 1..Len(ds) : IsDigit(ds[i])

ParseCents(amount) ==
    LET bare == SelectSeq(amount, LAMBDA c : c \notin {" ", "E"})
        commas == {i \in 1..Len(bare) : bare[i] = ","}
    IN IF commas = {}
       THEN IF AllDigits(bare) THEN Some(DigitsValue(bare) * 100) ELSE Nothing
       ELSE LET i == CHOOSE j \in commas : TRUE
                whole == SubSeq(bare, 1, i - 1)
                frac == SubSeq(bare, i + 1, Len(bare))
            IN IF Cardinality(commas) = 1 /\ AllDigits(whole) /\ AllDigits(frac)
                  /\ Len(frac) <= 2
               THEN Some(DigitsValue(whole) * 100
                         + (IF Len(frac) = 1 THEN 10 ELSE 1) * DigitsValue(frac))
               ELSE Nothing

CentsOrZero(amount) == IF ParseCents(amount) = Nothing THEN 0 ELSE ParseCents(amount)[1]

\* C17: the movable-asset total of a stored synthesis is the sum of the
\* amounts of the section that read as numbers (a sentinel counts for
\* nothing): "12 500 E", "Non specifie", "3 200,50 E" give 1570050 cents.
C17_MovableAssetTotal ==
    \A k \in 1..Len(syntheses) :
        LET section == syntheses[k].synthese.patrimoine_mobilier
        IN section # Nothing =>
              ParseCents(section[1].patrimoine_mobilier_total)
                = Some(CentsOrZero(section[1].comptes_bancaires)
                       + CentsOrZero(section[1].epargne_financiere)
                       + CentsOrZero(section[1].assurance_vie))

\* C18: every synthesis gets a dossier id of its own, also when two requests
\* run concurrently or finish within the same second: the store never holds
\* two syntheses under one dossier id.
C18_DossierIdUnique ==
    \A j, k \in 1..Len(syntheses) :
        j # k => syntheses[j].dossier_id # syntheses[k].dossier_id

(***************************************************************************)
(* services/llm_classifier.py: reload_document_types                       *)
(***************************************************************************)
\* reload_document_types: _load_document_types_from_db reads the table and
\* assigns both attributes, without suspension in between.
ReloadDocumentTypes(db_types, load_ok) ==
    /\ document_types' = LoadDocumentTypes(db_types, load_ok).document_types
    /\ categories' = LoadDocumentTypes(db_types, load_ok).categories
    /\ UNCHANGED <<has_llm, call, batchVars>>

\* The document_types table at the time of a reload.
DbTables == {DbFull, DbNoAutre, DbEmpty}

NextReload ==
    \/ \E text \in Texts : ClassifyBegin(text)
    \/ \E reply1 \in ClassifyReplies, reply2 \in StrictReplies : ClassifyResume(reply1, reply2)
    \/ ClassifyEnd
    \/ \E db_types \in DbTables, load_ok \in BOOLEAN : ReloadDocumentTypes(db_types, load_ok)

SpecReload == InitClassify /\ [][NextReload]_vars

\* C19: a reload during a classification is atomic for it: the type list the
\* call validates the answer against, when chain.ainvoke has answered, is the
\* type list it put in the prompt.
C19_ReloadAtomicForReader ==
    [][(call.pc = "awaiting" /\ call'.pc = "returned")
           => call.prompt_types = document_types]_vars

(***************************************************************************)
(* Claims on the synthesis of a batch                                      *)
(***************************************************************************)
\* C20: a synthesis that fails within a batch aborts only itself: the step
\* that ends the synthesis returns the batch response with the synthesis
\* outcome reported and with the outcomes and counts it had before, leaves the
\* stored documents and extractions as they were, and stores no synthesis
\* when the synthesis failed.
C20_SynthesisFailureIsolated ==
    [][(batch.pc = "synthesis" /\ batch' # batch) =>
          /\ batch'.pc = "returned"
          /\ response' # Nothing
          /\ response'[1].synthesis # Nothing
          /\ [response'[1] EXCEPT !.synthesis = Nothing] = response[1]
          /\ documents' = documents
          /\ extractions' = extractions
          /\ response'[1].synthesis = Some("synthesis_error") => syntheses' = syntheses]_vars

\* A batch with a success and a failure has returned with a failed synthesis.
C20_Witness ==
    /\ batch.pc = "returned"
    /\ Responded
    /\ response[1].synthesis = Some("synthesis_error")
    /\ response[1].successful_count = 1
    /\ response[1].failed_count = 1
    /\ Len(response[1].results) = 2
    /\ syntheses = <<>>

(***************************************************************************)
(* Syntheses of the whole store                                            *)
(***************************************************************************)
\* Requests that all select every stored document; the collaborators and the
\* store answer as in SpecSynth.
NextProfile ==
    \/ GenerateBegin({documents[d].id : d \in 1..Len(documents)})
    \/ \E r \in {x \in 1..Len(calls.requests) : calls.requests[x].pc = "section"} :
          \E reply \in SectionReplies(Sections[calls.requests[r].section]),
             store_ok \in BOOLEAN, word_ok \in BOOLEAN :
                SectionReturn(r, reply, store_ok, word_ok)
    \/ Tick

SpecProfile == InitSynth /\ [][NextProfile]_vars

\* The Word generator ran for request r and failed.
C21_RenderFailed(r) == calls.requests[r].word = "error"

C22_Kept(old, new) ==
    /\ Len(old) <= Len(new)
    /\ \A k \in 1..Len(old) : new[k] = old[k]

\* C22: the batch and its synthesis only append to the store: no step changes
\* or removes a document row or an extraction row that existed before it.
C22_StoreAppendOnly ==
    [][C22_Kept(documents, documents') /\ C22_Kept(extractions, extractions')]_vars

\* Two documents are stored, the first with an extraction, and a synthesis of
\* the batch has been stored.
C22_Witness ==
    /\ Len(documents) = 2
    /\ \E e \in 1..Len(extractions) : extractions[e].document_id = 1
    /\ Len(syntheses) = 1

(***************************************************************************)
(* Claims on the keyword fallback                                          *)
(***************************************************************************)
\* The number of words of a type name, longer than 3 characters, that occur
\* in the lower-cased text.
C23_Score(doc_type, text) ==
    LET keywords == Split(Lower(doc_type))
    IN Cardinality({k \in 1..Len(keywords) :
                       Len(keywords[k]) > KeywordMinLen
                       /\ Contains(keywords[k], Lower(text))})

\* min(score/5, 0.8), in hundredths.
C23_ScoreConfidence(score) == IF 20 * score < 80 THEN 20 * score ELSE 80

\* C23: on the failure path, when some catalog entry has a keyword in the
\* text, the fallback returns an entry of the highest score, with confidence
\* min(score/5, 0.8).
C23_FallbackBestScore ==
    (/\ CallReturned
     /\ InferenceFailed
     /\ \E i \in 1..Len(document_types) : C23_Score(document_types[i], call.text) > 0)
    => LET out == CallOut.classification
       IN /\ ~CallOut.raised
          /\ InTypes(document_types, out.document_type)
          /\ \A i \in 1..Len(document_types) :
                C23_Score(document_types[i], call.text)
                    <= C23_Score(out.document_type, call.text)
          /\ out.confidence = C23_ScoreConfidence(C23_Score(out.document_type, call.text))

\* C24: on the failure path the fallback returns a member of the catalog with
\* the catalog's category for it, whatever the catalog holds (also after a
\* failed or empty load); when no entry has a keyword in the text it is the
\* catalog's "Autre" entry, with a confidence between 0.1 and 0.2.
C24_FallbackInCatalog ==
    (CallReturned /\ InferenceFailed)
    => LET out == CallOut.classification
       IN /\ ~CallOut.raised
          /\ InTypes(document_types, out.document_type)
          /\ <<out.document_type, out.category>> \in categories
          /\ (\A i \in 1..Len(document_types) : C23_Score(document_types[i], call.text) = 0)
                => (/\ HasAutre(out.document_type)
                    /\ 10 <= out.confidence /\ out.confidence <= 20)

(***************************************************************************)
(* Claims on the confidence of a classification                            *)
(***************************************************************************)
\* C25: when Inference answers with a catalog type and a confidence outside
\* [0,1], classify_document keeps the answered type and replaces only the
\* confidence, by 0.5.
C25_ConfidenceClamped ==
    (/\ CallReturned
     /\ has_llm
     /\ call.reply1 # Nothing
     /\ call.reply1[1].kind = "ok"
     /\ InTypes(document_types, call.reply1[1].document_type)
     /\ ~HasAutre(call.reply1[1].document_type)
     /\ (call.reply1[1].confidence < 0 \/ call.reply1[1].confidence > 100))
    => (/\ ~CallOut.raised
        /\ CallOut.classification.document_type = call.reply1[1].document_type
        /\ CallOut.classification.confidence = DefaultConfidence)

(***************************************************************************)
(* Claims on the sections of a synthesis                                   *)
(***************************************************************************)
\* C26: a failed Inference call for a section other than "societes" leaves
\* the section empty instead of failing the synthesis: unless the store
\* refuses the row, the request succeeds and its synthesis is stored.
C26_SectionFailureTolerated ==
    \A r \in 1..Len(calls.requests) :
        (RequestReturned(r) /\ calls.requests[r].failed \ {"societes"} # {})
            => \/ calls.requests[r].result[1].success
               \/ calls.requests[r].result[1].error = "sqlite3.Error"

(***************************************************************************)
(* Claims on a document without text                                       *)
(***************************************************************************)
\* The Recognizer finds only whitespace in the file, or its OCR call failed.
C27_NoText(file) == file.content \in {"blank", "ocr_failed"}

C28_Stored(i) ==
    \E k \in 1..Len(documents) : documents[k].filename = files[i].filename

\* C28: the outcome of a document is a success exactly when its row has been
\* stored, which needs a text from the Recognizer; neither a fallen-back
\* classification nor a failed extraction makes it a failure.  The successes
\* are what the response counts and what the synthesis is made from.
C28_SuccessIsStored ==
    /\ \A i \in Tasks :
          TaskDone(i) =>
             /\ ProcessedResult(files[i], task[i].result[1]).success <=> C28_Stored(i)
             /\ C28_Stored(i) => (effects[i].recognizer /\ ~C27_NoText(files[i]))
    /\ Responded =>
          /\ response[1].successful_count = Len(documents)
          /\ \A k \in 1..Len(syntheses) :
                syntheses[k].input_documents = {documents[d].id : d \in 1..Len(documents)}

\* A document whose classification fell back and that has no extraction is a
\* success, is counted, and a synthesis has been made from it.
C28_Witness ==
    /\ Responded
    /\ C10_FellBack(1)
    /\ extractions = <<>>
    /\ response[1].results[1].success
    /\ response[1].successful_count = 1
    /\ Len(syntheses) = 1
    /\ syntheses[1].input_documents = {1}

(***************************************************************************)
(* main.py: concurrent process_multiple_files calls                        *)
(***************************************************************************)
MaxCalls == 2
MaxUnits == 6

\* The units of one call are alike here: a call is its semaphore and the
\* numbers of its process_with_semaphore tasks waiting for a slot, running
\* process_single_file, and done.
NewCall(n) == [semaphore |-> MaxConcurrent, queued |-> n, running |-> 0, done |-> 0]

\* A slip of line 220: one semaphore of the process, created at import.
SemaphoreOfProcess(ps, c) ==
    LET RECURSIVE Running(_)
        Running(k) == IF k = 0 THEN 0 ELSE ps[k].running + Running(k - 1)
    IN MaxConcurrent - Running(Len(ps))
\* Line 220: `semaphore = asyncio.Semaphore(5)` is a local of the call.
SemaphoreOfCall(ps, c) == ps[c].semaphore

\* POST /upload-multiple: process_multiple_files creates its semaphore and one
\* task per file.
CallBegin ==
    /\ Len(pools) < MaxCalls
    /\ pools' = Append(pools, NewCall(MaxUnits))
    /\ UNCHANGED <<clsVars, call, files, task, results, disk, documents, extractions,
                   effects, response, semaphore, config_delete, batch, syntheses, calls>>

\* `async with semaphore`: a waiting unit of call c takes a slot.
UnitStart(c) ==
    /\ pools[c].queued > 0
    /\ SemaphoreCanAcquire(SemaphoreOfCall(pools, c))
    /\ pools' = [pools EXCEPT ![c] =
                    [@ EXCEPT !.queued = @ - 1, !.running = @ + 1, !.semaphore = @ - 1]]
    /\ UNCHANGED <<clsVars, call, files, task, results, disk, documents, extractions,
                   effects, response, semaphore, config_delete, batch, syntheses, calls>>

\* process_single_file of a running unit of call c returns or raises: the
\* slot is released.
UnitEnd(c) ==
    /\ pools[c].running > 0
    /\ pools' = [pools EXCEPT ![c] =
                    [@ EXCEPT !.running = @ - 1, !.done = @ + 1, !.semaphore = @ + 1]]
    /\ UNCHANGED <<clsVars, call, files, task, results, disk, documents, extractions,
                   effects, response, semaphore, config_delete, batch, syntheses, calls>>

NextCalls ==
    \/ CallBegin
    \/ \E c \in 1..Len(pools) : UnitStart(c)
    \/ \E c \in 1..Len(pools) : UnitEnd(c)

SpecCalls == InitClassify /\ [][NextCalls]_vars

\* C29: the limit of 5 is a limit of each call: a call never runs more than 5
\* units, and a call with a waiting unit and fewer than 5 running units can
\* start one whatever the other calls are running; nothing bounds the units
\* of the process.
C29_LimitIsPerCall ==
    \A c \in 1..Len(pools) :
        /\ pools[c].running <= MaxConcurrent
        /\ (pools[c].queued > 0 /\ pools[c].running < MaxConcurrent)
              => ENABLED UnitStart(c)

\* Two calls run 5 units each: 10 units of the process are in flight.
C29_Witness ==
    /\ Len(pools) = 2
    /\ pools[1].running = MaxConcurrent
    /\ pools[2].running = MaxConcurrent
    /\ pools[1].queued > 0

(***************************************************************************)
(* database.py: delete_document                                            *)
(***************************************************************************)
\* get_connection never issues PRAGMA foreign_keys: whether the ON DELETE
\* CASCADE of document_extractions is enforced is the default of the SQLite
\* build (off unless the library was compiled otherwise).
ForeignKeysDefaults == {FALSE, TRUE}

\* DELETE /documents/{id}: database.delete_document removes the row of
\* documents; the rows of document_extractions go with it only when foreign
\* keys are enforced.
DeleteDocument(document_id, foreign_keys) ==
    /\ \E d \in 1..Len(documents) : documents[d].id = document_id
    /\ documents' = SelectSeq(documents, LAMBDA row : row.id # document_id)
    /\ extractions' =
          IF foreign_keys
          THEN SelectSeq(extractions, LAMBDA row : row.document_id # document_id)
          ELSE extractions
    /\ UNCHANGED <<clsVars, call, files, task, results, disk, effects, response,
                   semaphore, config_delete, batch, syntheses, calls, pools>>

\* The store under deletions, read by the synthesis requests that begin.
NextStore ==
    \/ GenerateBegin({documents[d].id : d \in 1..Len(documents)})
    \/ Tick
    \/ \E d \in 1..Len(documents), foreign_keys \in ForeignKeysDefaults :
          DeleteDocument(documents[d].id, foreign_keys)

SpecStore == InitSynth /\ [][NextStore]_vars

\* C30: every stored extraction refers to a stored document: the deletion of
\* a document removes all of its extractions with it.
C30_NoOrphanExtraction ==
    \A e \in 1..Len(extractions) :
        \E d \in 1..Len(documents) : documents[d].id = extractions[e].document_id
====
